---- MODULE Spec2Model ----
(***************************************************************************)
(* Model of splitpy/utils.py: the three command-line option parsers        *)
(* (get_options, get_options_prep_offline, get_options_OL_proc), the local *)
(* day-file resolver parse_localdata_for_comp and the waveform acquisition *)
(* function get_data_NEZ.                                                  *)
(*                                                                         *)
(* Every function is single-threaded and synchronous.  A behaviour of the  *)
(* model is one call of one function: the call draws its inputs, and for   *)
(* get_data_NEZ the statements then run one after the other (pc).          *)
(***************************************************************************)
EXTENDS Integers, Sequences, FiniteSets, TLC

VARIABLES
    disk,     \* the local day files found on disk: the stdata of the calls
    pc,       \* position: "idle", "disk" while the local files are gathered,
              \* then inside / at the end of the call made
    fn,       \* name of the function that was called
    inp,      \* the inputs of the call
    ret,      \* what the call ended with (a return value or an exception)
    st,       \* get_data_NEZ: local variable st ("unbound", "None" or a stream)
    erd,      \* get_data_NEZ: local variable erd
    li,       \* get_data_NEZ: index of the next element of sta.location
    queries,  \* get_data_NEZ: the client.get_waveforms calls made so far
    applied   \* get_data_NEZ: the processing steps applied to st so far

vars == <<disk, pc, fn, inp, ret, st, erd, li, queries, applied>>

(***************************************************************************)
(* Bounds of the model.                                                    *)
(***************************************************************************)
MaxAuthLen == 3     \* longest --User-Auth value, in characters
MaxArgs == 2        \* most positional arguments on the command line
MaxTime == 5        \* time runs over the sample instants 0..MaxTime
MaxFiles == 2       \* most entries of stdata (beyond one file per component)
MaxLocs == 2        \* most entries of sta.location
MaxNpts == 2        \* most samples of a trace delivered by the client

(***************************************************************************)
(* The calendar, scaled down: a day is DayLen sample intervals long and a  *)
(* year has DaysPerYear days.  strftime("%Y") and strftime("%j") of a time.*)
(***************************************************************************)
DayLen == 2
DaysPerYear == 2

Times == 0..MaxTime
strftimeY(t) == (t \div DayLen) \div DaysPerYear
strftimej(t) == ((t \div DayLen) % DaysPerYear) + 1

\* All sequences over S of length lo..hi.
SeqsOf(S, lo, hi) == UNION {[1..n -> S] : n \in lo..hi}

Min(a, b) == IF a <= b THEN a ELSE b
Max(a, b) == IF a >= b THEN a ELSE b

(***************************************************************************)
(* Option parsing.                                                         *)
(*                                                                         *)
(* A command line is the record of what optparse hands back: the flags,    *)
(* the option values and the positional arguments.  Strings are sequences  *)
(* of characters; a time string is "" (not given), "good" (UTCDateTime     *)
(* accepts it) or "bad" (UTCDateTime raises).                              *)
(***************************************************************************)
Chars == {"u", ":"}
Paths == {"db", "nofile"}
exist(p) == p = "db"
TimeStrings == {"", "good", "bad"}

\* Option defaults: add_option(..., default=...), magnitudes in tenths.
MinMagDefault == 60
MinMagDefaultPrep == 58
MinMagDefaultOL == 58

\* str.split(':'): the pieces between the separators, 1 + number of separators.
RECURSIVE split(_, _)
split(s, sep) ==
    IF \A i \in 1..Len(s) : s[i] # sep
    THEN <<s>>
    ELSE LET k == CHOOSE i \in 1..Len(s) :
                     s[i] = sep /\ \A j \in 1..(i - 1) : s[j] # sep
         IN  <<SubSeq(s, 1, k - 1)>> \o split(SubSeq(s, k + 1, Len(s)), sep)

\* UTCDateTime(s) inside try/except: the time, or the parser error.
ParsesAsTime(s) == s = "good"

\* --min-mag: the value given (a one-element sequence) or the default.
MinMag(given, default) == IF Len(given) = 0 THEN default ELSE given[1]

\* The value of opts.startT / opts.endT after "construct start/end time".
TimeOpt(s) == IF Len(s) > 0 THEN "UTCDateTime" ELSE "None"

Error(msg) == [kind |-> "parser.error", msg |-> msg]
Returned(opts, path) == [kind |-> "return", opts |-> opts, path |-> path]

\* "Check existing file behaviour": both flags negate each other.
\* (ExistingFileBehaviourBothKept: the check left out.)
ExistingFileBehaviourBothKept(o) == o
ExistingFileBehaviour(o) ==
    IF o.skip /\ o.ovr THEN [o EXCEPT !.skip = FALSE, !.ovr = FALSE] ELSE o

\* "Check NoData Value": numpy.nan and 0.0.
Nan == "nan"
Zero == "0.0"
\* (NoDataValueAlwaysNan: the flag ignored.)
NoDataValueAlwaysNan(flag) == Nan
NoDataValue(flag) == IF flag THEN Zero ELSE Nan

\* "Parse User Authentification": whether parser.error is reached, and the
\* list opts.UserAuth becomes otherwise.
\* (UserAuthErrorNoCheck: the len(tt) == 2 test left out.)
UserAuthErrorNoCheck(s) == FALSE
UserAuthError(s) == Len(s) # 0 /\ Len(split(s, ":")) # 2
UserAuthList(s) == IF Len(s) # 0 THEN split(s, ":") ELSE <<>>

\* "Check inputs": the positional arguments.  "ok" or the error message
\* ("Need station database file" / "Need Data Folder", "... does not exist").
\* (CheckInputsNoExistTest: the exist() test left out.)
CheckInputsNoExistTest(args) == IF Len(args) # 1 THEN "Need input" ELSE "ok"
CheckInputs(args) ==
    IF Len(args) # 1 THEN "Need input"
    ELSE IF ~exist(args[1]) THEN "Input does not exist"
    ELSE "ok"

\* The checks all three parsers share, in the order the code makes them.
\* "ok" or the message of the first parser.error reached.
CommonChecks(c) ==
    IF CheckInputs(c.args) # "ok" THEN CheckInputs(c.args)
    ELSE IF Len(c.startT) > 0 /\ ~ParsesAsTime(c.startT)
         THEN "Cannot construct UTCDateTime from start time"
    ELSE IF Len(c.endT) > 0 /\ ~ParsesAsTime(c.endT)
         THEN "Cannot construct UTCDateTime from end time"
    ELSE "ok"

AuthError == "Error: Incorrect Username and Password Strings for User Authentification"

get_options(c) ==
    IF CommonChecks(c) # "ok" THEN Error(CommonChecks(c))
    ELSE IF UserAuthError(c.UserAuth) THEN Error(AuthError)
    ELSE Returned(
           ExistingFileBehaviour(
             [ovr |-> c.ovr, skip |-> c.skip,
              startT |-> TimeOpt(c.startT), endT |-> TimeOpt(c.endT),
              UserAuth |-> UserAuthList(c.UserAuth),
              ndval |-> NoDataValue(c.ndval),
              minmag |-> MinMag(c.minmag, MinMagDefault)]),
           c.args[1])

get_options_prep_offline(c) ==
    IF CommonChecks(c) # "ok" THEN Error(CommonChecks(c))
    ELSE IF UserAuthError(c.UserAuth) THEN Error(AuthError)
    ELSE Returned(
           [startT |-> TimeOpt(c.startT), endT |-> TimeOpt(c.endT),
            UserAuth |-> UserAuthList(c.UserAuth),
            ndval |-> NoDataValue(c.ndval),
            minmag |-> MinMag(c.minmag, MinMagDefaultPrep)],
           c.args[1])

get_options_OL_proc(c) ==
    IF CommonChecks(c) # "ok" THEN Error(CommonChecks(c))
    ELSE Returned(
           [startT |-> TimeOpt(c.startT), endT |-> TimeOpt(c.endT),
            minmag |-> MinMag(c.minmag, MinMagDefaultOL)],
           c.args[1])

\* The command lines tried.
ArgLists == SeqsOf(Paths, 0, MaxArgs)
AuthStrings == SeqsOf(Chars, 0, MaxAuthLen)
MinMags == {<<>>, <<70>>}

CmdLines ==
    [ovr : BOOLEAN, skip : BOOLEAN, ndval : BOOLEAN, UserAuth : AuthStrings,
     args : ArgLists, startT : TimeStrings, endT : TimeStrings, minmag : MinMags]
CmdLinesPrep ==
    [ndval : BOOLEAN, UserAuth : AuthStrings,
     args : ArgLists, startT : TimeStrings, endT : TimeStrings, minmag : MinMags]
CmdLinesOL ==
    [args : ArgLists, startT : TimeStrings, endT : TimeStrings, minmag : MinMags]

(***************************************************************************)
(* Local day files.                                                        *)
(*                                                                         *)
(* An entry of stdata is a SAC file.  Its name carries year, day of year,  *)
(* network, station and channel (two-letter prefix chan, component comp):  *)
(*     <dir>/<yr>.<jd>.<net>.<sta>.<loc>.<chan><comp>.SAC                  *)
(* and the file holds ntr traces, the first one spanning ts..te at one     *)
(* sample per instant, with SAC header user9 and the instants whose sample *)
(* equals user9 (holes).  The header's network, station and channel are    *)
(* those of the name; calib is the calibration factor of the trace.        *)
(***************************************************************************)
NoUser9 == -12345

\* fnmatch of a name against format 1 '*/yr.jd.NET.STA.*.CCc.SAC'
Format1(f, yr, jd, net, sta, comp) ==
    /\ f.yr = yr /\ f.jd = jd /\ f.net = net
    /\ f.sta = sta.station /\ f.chan = sta.channel /\ f.comp = comp

\* fnmatch of a name against format 2 '*/yr.jd.NET.STA.*.*c.SAC'
Format2(f, yr, jd, net, sta, comp) ==
    /\ f.yr = yr /\ f.jd = jd /\ f.net = net
    /\ f.sta = sta.station /\ f.comp = comp

\* list(filter(stdata, pattern)): the matching entries, in the order of stdata.
filter1(stdata, yr, jd, net, sta, comp) ==
    SelectSeq(stdata, LAMBDA f : Format1(f, yr, jd, net, sta, comp))
filter2(stdata, yr, jd, net, sta, comp) ==
    SelectSeq(stdata, LAMBDA f : Format2(f, yr, jd, net, sta, comp))

\* "for anet in sta.altnet: lclfiles.extend(filter(format 1 under anet))"
RECURSIVE altnet1(_, _, _, _, _, _)
altnet1(stdata, yr, jd, nets, sta, comp) ==
    IF nets = <<>> THEN <<>>
    ELSE filter1(stdata, yr, jd, Head(nets), sta, comp)
         \o altnet1(stdata, yr, jd, Tail(nets), sta, comp)

\* "for anet in sta.altnet: lclfiles.extend(filter(format 2 under anet))"
RECURSIVE altnet2(_, _, _, _, _, _)
altnet2(stdata, yr, jd, nets, sta, comp) ==
    IF nets = <<>> THEN <<>>
    ELSE filter2(stdata, yr, jd, Head(nets), sta, comp)
         \o altnet2(stdata, yr, jd, Tail(nets), sta, comp)

\* The same loop as written for the single-day case: the pattern is formatted
\* with sta.network, not with anet, on every pass.
RECURSIVE altnet2Single(_, _, _, _, _, _)
altnet2Single(stdata, yr, jd, nets, sta, comp) ==
    IF nets = <<>> THEN <<>>
    ELSE filter2(stdata, yr, jd, sta.network, sta, comp)
         \o altnet2Single(stdata, yr, jd, Tail(nets), sta, comp)

\* The four variants in turn; each is consulted when the list is still empty.
Fallback(a, b) == IF Len(a) = 0 THEN b ELSE a

\* lclfiles of the single-day case.
lclfilesSingle(stdata, yr, jd, sta, comp) ==
    Fallback(Fallback(Fallback(
        filter1(stdata, yr, jd, sta.network, sta, comp),
        filter2(stdata, yr, jd, sta.network, sta, comp)),
        altnet1(stdata, yr, jd, sta.altnet, sta, comp)),
        altnet2Single(stdata, yr, jd, sta.altnet, sta, comp))

\* lclfiles1 / lclfiles2 of the multi-day case, for the day (yr, jd).
lclfilesDay(stdata, yr, jd, sta, comp) ==
    Fallback(Fallback(Fallback(
        filter1(stdata, yr, jd, sta.network, sta, comp),
        filter2(stdata, yr, jd, sta.network, sta, comp)),
        altnet1(stdata, yr, jd, sta.altnet, sta, comp)),
        altnet2(stdata, yr, jd, sta.altnet, sta, comp))

\* "Check for NoData and convert": user9 marks missing samples unless it is
\* 0.0 or -12345.0; the marked samples are set to ndval.
Edited(f) == f.user9 # 0 /\ f.user9 # NoUser9

\* True in isnan(data) after the edit, for the samples in lo..hi.
\* (HasNanNever: the isnan test left out.)
HasNanNever(f, lo, hi, ndval) == FALSE
HasNan(f, lo, hi, ndval) ==
    Edited(f) /\ ndval = Nan /\ \E t \in f.holes : lo <= t /\ t <= hi /\ f.ts <= t /\ t <= f.te

\* "data[data == stnd] = ndval": the instants of the file whose sample has
\* become the value v.
SetTo(f, ndval, v) ==
    IF Edited(f) /\ ndval = v THEN {t \in f.holes : f.ts <= t /\ t <= f.te} ELSE {}

\* A trace: component, span, number of samples, the instants whose sample is
\* NaN and those set to zero, origin and the files read.
Trace(comp, ts, te, nan, zero, src) ==
    [comp |-> comp, ts |-> ts, te |-> te, npts |-> te - ts + 1,
     nan |-> nan, zero |-> zero, origin |-> "disk", src |-> src]

\* The trace read from one file, and the trace st1 + st2 merge into (each
\* instant keeps the sample of the file that holds it).
Read(f, ndval) ==
    Trace(f.comp, f.ts, f.te, SetTo(f, ndval, Nan), SetTo(f, ndval, Zero), <<f>>)
Merged(f1, f2, ndval) ==
    Trace(f1.comp, Min(f1.ts, f2.ts), Max(f1.te, f2.te),
          SetTo(f1, ndval, Nan) \cup SetTo(f2, ndval, Nan),
          SetTo(f1, ndval, Zero) \cup SetTo(f2, ndval, Zero), <<f1, f2>>)

\* st.trim(starttime, endtime): the part of the trace inside the window.
trim(tr, start, end) ==
    [tr EXCEPT !.ts = Max(tr.ts, start), !.te = Min(tr.te, end),
               !.npts = Min(tr.te, end) - Max(tr.ts, start) + 1,
               !.nan = {t \in tr.nan : start <= t /\ t <= end},
               !.zero = {t \in tr.zero : start <= t /\ t <= end}]

NoData == [erd |-> TRUE, st |-> <<>>]
FromDisk(tr) == [erd |-> FALSE, st |-> <<tr>>]

\* "Check start/end times in range"
\* (InRangeStartOnly: the endtime comparison left out.)
InRangeStartOnly(ts, te, start, end) == ts <= start
InRange(ts, te, start, end) == ts <= start /\ te >= end

\* "Process the local Files": the first usable file ends the call.
RECURSIVE ProcessSingle(_, _, _, _)
ProcessSingle(lclfiles, start, end, ndval) ==
    IF lclfiles = <<>> THEN NoData
    ELSE LET f == Head(lclfiles) IN
         IF /\ f.ntr = 1
            /\ InRange(f.ts, f.te, start, end)
            /\ ~HasNan(f, start, end, ndval)
         THEN FromDisk(trim(Read(f, ndval), start, end))
         ELSE ProcessSingle(Tail(lclfiles), start, end, ndval)

\* st = st1 + st2; st.merge(): the number of traces left, or "raise".
\* Traces merge when their ids agree; equal ids with different calibration
\* factors make merge raise.
TraceId(f) == <<f.net, f.sta, f.chan, f.comp>>
MergeRaises(f1, f2) == TraceId(f1) = TraceId(f2) /\ f1.calib # f2.calib
MergedLen(f1, f2) ==
    IF f1.ntr = 1 /\ f2.ntr = 1 /\ TraceId(f1) = TraceId(f2) THEN 1 ELSE f1.ntr + f2.ntr

\* "Check time overlap of the two files" (delta is one sample interval).
delta == 1
Overlap(f1, f2) == f1.te >= f2.ts - delta

\* One pass of the inner loop: the stream returned, or <<>> to go on.
TryMerge(f1, f2, start, end, ndval) ==
    IF /\ Overlap(f1, f2)
       /\ ~MergeRaises(f1, f2)
       /\ MergedLen(f1, f2) = 1
       /\ InRange(Min(f1.ts, f2.ts), Max(f1.te, f2.te), start, end)
       /\ ~HasNan(f1, start, end, ndval)
       /\ ~HasNan(f2, start, end, ndval)
    THEN <<trim(Merged(f1, f2, ndval), start, end)>>
    ELSE <<>>

\* "Loop over first day file options / second day file options"
RECURSIVE ProcessPairs(_, _, _, _, _, _)
ProcessPairs(l1, l2, rest2, start, end, ndval) ==
    IF l1 = <<>> THEN NoData
    ELSE IF rest2 = <<>> THEN ProcessPairs(Tail(l1), l2, l2, start, end, ndval)
    ELSE LET got == TryMerge(Head(l1), Head(rest2), start, end, ndval) IN
         IF got # <<>> THEN [erd |-> FALSE, st |-> got]
         ELSE ProcessPairs(l1, l2, Tail(rest2), start, end, ndval)

\* "Time Window Spans Single Day": the test the code makes.
SingleDay(start, end) == strftimej(start) = strftimej(end)

\* The locals of parse_localdata_for_comp when it returns: which procedure
\* ran, the candidate lists and the pair (erd, st) returned.
parse_localdata_for_comp(comp, stdata, sta, start, end, ndval) ==
    IF SingleDay(start, end)
    THEN LET lclfiles == lclfilesSingle(stdata, strftimeY(start), strftimej(start), sta, comp)
             r == ProcessSingle(lclfiles, start, end, ndval)
         IN  [proc |-> "single", lclfiles |-> lclfiles, lclfiles1 |-> <<>>,
              lclfiles2 |-> <<>>, erd |-> r.erd, st |-> r.st]
    ELSE LET lclfiles1 == lclfilesDay(stdata, strftimeY(start), strftimej(start), sta, comp)
             lclfiles2 == lclfilesDay(stdata, strftimeY(end), strftimej(end), sta, comp)
             r == IF Len(lclfiles1) > 0 /\ Len(lclfiles2) > 0
                  THEN ProcessPairs(lclfiles1, lclfiles2, lclfiles2, start, end, ndval)
                  ELSE NoData
         IN  [proc |-> "multi", lclfiles |-> <<>>, lclfiles1 |-> lclfiles1,
              lclfiles2 |-> lclfiles2, erd |-> r.erd, st |-> r.st]

(***************************************************************************)
(* The inputs tried for parse_localdata_for_comp.                          *)
(***************************************************************************)
Nets == {"CN", "PO", "NY"}
Sta(altnet, location) ==
    [network |-> "CN", altnet |-> altnet, station |-> "STA", channel |-> "BH",
     location |-> location]
AltNets == {<<>>, <<"PO">>, <<"PO", "NY">>}

DayOf(t) == t \div DayLen

File(d, net, chan, comp, ts, te) ==
    [yr |-> d \div DaysPerYear, jd |-> (d % DaysPerYear) + 1, net |-> net,
     sta |-> "STA", chan |-> chan, comp |-> comp, ts |-> ts, te |-> te,
     ntr |-> 1, user9 |-> NoUser9, holes |-> {}, calib |-> 1]

\* Day files of the station's own network and channel whose first sample lies
\* in the day they are named for, of every length.
TimeFiles ==
    {File(DayOf(span[1]), "CN", "BH", "Z", span[1], span[2]) :
        span \in {p \in Times \X Times : p[1] <= p[2]}}

\* Files that hold the whole time axis, under every name.
NameFiles ==
    {File(d, net, chan, comp, 0, MaxTime) :
        d \in {0, 1}, net \in Nets, chan \in {"BH", "HH"}, comp \in {"Z", "N"}}

\* One day file per component that holds the first day.
NumComp == 3
Comps == {"Z", "N", "E"}
CompOrder == <<"Z", "N", "E">>
GoodFile(comp) == File(0, "CN", "BH", comp, 0, DayLen - 1)
NEZFiles == {GoodFile(c) : c \in Comps}

\* Files that hold exactly the day they are named for, under the station's
\* network or an alternate one and either channel prefix: as they should be,
\* with two traces, one sample short, or with the first sample of the day
\* equal to a no-data marker in user9.
DayFile(d, net, chan) ==
    File(d, net, chan, "Z", d * DayLen, d * DayLen + DayLen - 1)
Flawed(f, flaw) ==
    IF flaw = "traces" THEN [f EXCEPT !.ntr = 2]
    ELSE IF flaw = "short" THEN [f EXCEPT !.te = f.te - 1]
    ELSE IF flaw = "marked" THEN [f EXCEPT !.user9 = 999, !.holes = {f.ts}]
    ELSE f
Flaws == {"none", "traces", "short", "marked"}
FlawFiles ==
    {Flawed(DayFile(d, net, chan), flaw) :
        d \in {0, 1}, net \in {"CN", "PO"}, chan \in {"BH", "HH"}, flaw \in Flaws}

\* The disk holds files of one of these families.
Families == {"time", "name", "flaw", "nez"}
FamilyFiles(k) ==
    IF k = "time" THEN TimeFiles
    ELSE IF k = "name" THEN NameFiles
    ELSE IF k = "flaw" THEN FlawFiles
    ELSE NEZFiles
FamilyCap(k) == IF k = "nez" THEN NumComp ELSE MaxFiles
InFamily(l, k) == \A i \in 1..Len(l) : l[i] \in FamilyFiles(k)

\* The time windows asked for: every window for the files of every length; a
\* same-day window and a window over two days of one year for the names; the
\* first day for the three components; the first day and a window that ends
\* with the second day for the flawed files, with either no-data value.
Windows(k) ==
    IF k = "time" THEN {w \in [start : Times, end : Times] : w.start <= w.end}
    ELSE IF k = "name"
    THEN {[start |-> 0, end |-> DayLen - 1], [start |-> DayLen - 1, end |-> DayLen]}
    ELSE IF k = "flaw"
    THEN {[start |-> 0, end |-> DayLen - 1],
          [start |-> DayLen - 1, end |-> 2 * DayLen - 1]}
    ELSE {[start |-> 0, end |-> DayLen - 1]}
AltNetsOf(k) ==
    IF k = "name" THEN AltNets ELSE IF k = "flaw" THEN {<<>>, <<"PO">>} ELSE {<<>>}
NoDataValuesOf(k) == IF k = "flaw" THEN {Nan, Zero} ELSE {Nan}

(***************************************************************************)
(* get_data_NEZ.                                                           *)
(***************************************************************************)
Unbound == [kind |-> "unbound", traces |-> <<>>]
None == [kind |-> "None", traces |-> <<>>]
Stream(traces) == [kind |-> "Stream", traces |-> traces]

\* st.select(component=c): the traces of that component, in order.
select(s, c) == SelectSeq(s.traces, LAMBDA tr : tr.comp = c)

\* The truth value of a trace: a trace without samples is false.
Truthy(tr) == tr.npts > 0

\* What the client may deliver: an exception, or a stream of up to NumComp
\* traces, each of any component and any number of samples.
RemoteTrace(comp, npts, start, end) ==
    [comp |-> comp, ts |-> start, te |-> end, npts |-> npts,
     origin |-> "client", src |-> <<>>]
RemoteStreams(start, end) ==
    SeqsOf({RemoteTrace(c, n, start, end) : c \in Comps, n \in 0..MaxNpts}, 0, NumComp)

\* "Construct Channel List"
channels(sta) == <<sta.channel, "E", ",", sta.channel, "N", ",", sta.channel, "Z">>

ErrorResult == [kind |-> "return", erd |-> TRUE, tr |-> <<>>]
Raised(exc) == [kind |-> "raise", exc |-> exc]

\* The processing of the stream, statement by statement.
ProcSteps == <<"detrend demean", "detrend linear", "lowpass 2.5", "resample 5.0",
               "bandpass 0.01-0.25">>

\* sta.location: the location codes to ask the client for, in order.
AllLocations == <<"", "00", "10">>
Locations == {SubSeq(AllLocations, 1, n) : n \in 0..Min(MaxLocs, Len(AllLocations))}

\* The three local lookups of get_data_NEZ.
Local(i, comp) ==
    parse_localdata_for_comp(comp, i.stdata, i.sta, i.start, i.end, i.ndval)

\* erd after "Check if there is local data".
\* (LocalErdAlways: the local result ignored; LocalErdOnlyZ: errN and errE
\* left out of the disjunction.)
LocalErdAlways(i) == TRUE
LocalErdOnlyZ(i) == IF Len(i.stdata) > 0 THEN Local(i, "Z").erd ELSE TRUE
LocalErd(i) ==
    IF Len(i.stdata) > 0
    THEN Local(i, "Z").erd \/ Local(i, "N").erd \/ Local(i, "E").erd
    ELSE TRUE

\* st after "Check if there is local data": st = stZ + stN + stE, or unassigned.
LocalSt(i) ==
    IF ~LocalErd(i)
    THEN Stream(Local(i, "Z").st \o Local(i, "N").st \o Local(i, "E").st)
    ELSE Unbound

(***************************************************************************)
(* The state machine.                                                      *)
(***************************************************************************)
NoRet == [kind |-> "none"]

Init ==
    /\ disk = <<>>
    /\ pc = "idle"
    /\ fn = "none"
    /\ inp = [kind |-> "none"]
    /\ ret = NoRet
    /\ st = Unbound
    /\ erd = TRUE
    /\ li = 1
    /\ queries = <<>>
    /\ applied = <<>>

NEZVars == <<st, erd, li, queries, applied>>

\* One more day file is found on disk before the call is made.
FindFile ==
    /\ pc \in {"idle", "disk"}
    /\ \E k \in Families, f \in UNION {FamilyFiles(k) : k \in Families} :
        /\ f \in FamilyFiles(k)
        /\ InFamily(disk, k)
        /\ Len(disk) < FamilyCap(k)
        /\ \A i \in 1..Len(disk) : disk[i] # f
        /\ k = "nez" => f.comp = CompOrder[Len(disk) + 1]
        /\ disk' = Append(disk, f)
    /\ pc' = "disk"
    /\ UNCHANGED <<fn, inp, ret, st, erd, li, queries, applied>>

\* One call of an option parser: runs to its return or to parser.error.
Call_get_options ==
    /\ pc = "idle"
    /\ \E c \in CmdLines :
        /\ inp' = c
        /\ ret' = get_options(c)
    /\ fn' = "get_options"
    /\ pc' = "done"
    /\ UNCHANGED <<disk, NEZVars>>

Call_get_options_prep_offline ==
    /\ pc = "idle"
    /\ \E c \in CmdLinesPrep :
        /\ inp' = c
        /\ ret' = get_options_prep_offline(c)
    /\ fn' = "get_options_prep_offline"
    /\ pc' = "done"
    /\ UNCHANGED <<disk, NEZVars>>

Call_get_options_OL_proc ==
    /\ pc = "idle"
    /\ \E c \in CmdLinesOL :
        /\ inp' = c
        /\ ret' = get_options_OL_proc(c)
    /\ fn' = "get_options_OL_proc"
    /\ pc' = "done"
    /\ UNCHANGED <<disk, NEZVars>>

\* One call of parse_localdata_for_comp.
Call_parse_localdata_for_comp ==
    /\ pc \in {"idle", "disk"}
    /\ \E k \in {"time", "name", "flaw"} :
        /\ InFamily(disk, k)
        /\ \E w \in Windows(k), a \in AltNetsOf(k), v \in NoDataValuesOf(k) :
            LET i == [comp |-> "Z", stdata |-> disk, sta |-> Sta(a, <<"">>),
                      start |-> w.start, end |-> w.end, ndval |-> v]
            IN  /\ inp' = i
                /\ ret' = parse_localdata_for_comp(i.comp, i.stdata, i.sta,
                                                   i.start, i.end, i.ndval)
    /\ fn' = "parse_localdata_for_comp"
    /\ pc' = "done"
    /\ UNCHANGED <<disk, NEZVars>>

\* get_data_NEZ up to the for loop: the local lookups, then "if erd: erd = False".
Call_get_data_NEZ ==
    /\ pc \in {"idle", "disk"}
    /\ InFamily(disk, "nez")
    /\ \E w \in Windows("nez"), loc \in Locations :
        LET i == [stdata |-> disk, sta |-> Sta(<<>>, loc), start |-> w.start,
                  end |-> w.end, ndval |-> Nan]
        IN
        /\ inp' = i
        /\ st' = LocalSt(i)
        /\ erd' = FALSE
        /\ pc' = IF LocalErd(i) THEN "loop" ELSE "check"
    /\ fn' = "get_data_NEZ"
    /\ UNCHANGED <<disk, ret, li, queries, applied>>

\* One pass of "for loc in sta.location": the request and what comes of it.
Accepted(resp) == resp.kind = "Stream" /\ Len(resp.traces) = NumComp

Request(i, loc) ==
    [network |-> i.sta.network, station |-> i.sta.station, location |-> loc,
     channel |-> channels(i.sta), starttime |-> i.start, endtime |-> i.end]

LoopQuery ==
    /\ pc = "loop"
    /\ li <= Len(inp.sta.location)
    /\ queries' = Append(queries, Request(inp, inp.sta.location[li]))
    /\ \E resp \in {Raised("Exception")} \cup
                   {Stream(t) : t \in RemoteStreams(inp.start, inp.end)} :
        IF Accepted(resp)
        THEN /\ st' = resp
             /\ erd' = FALSE
             /\ pc' = "check"
             /\ li' = li
        ELSE /\ st' = None
             /\ erd' = TRUE
             /\ pc' = "loop"
             /\ li' = li + 1
    /\ UNCHANGED <<disk, fn, inp, ret, applied>>

\* The loop ends with sta.location exhausted (or empty).
LoopExit ==
    /\ pc = "loop"
    /\ li > Len(inp.sta.location)
    /\ pc' = "check"
    /\ UNCHANGED <<disk, fn, inp, ret, st, erd, li, queries, applied>>

\* "Check the correct 3 components exist": where the statement ends.
\* st.select(...)[0] raises IndexError on an empty selection; the condition is
\* evaluated left to right and stops at the first true operand; its middle
\* operand tests the selection itself, not its first trace.
CheckComponents(s) ==
    LET Z == select(s, "Z")
        E == select(s, "E")
        N == select(s, "N")
        branch == IF Len(E) = 0 \/ Len(N) = 0 THEN "IndexError" ELSE "error"
    IN  IF Len(Z) = 0 THEN "IndexError"
        ELSE IF ~Truthy(Z[1]) THEN branch
        ELSE IF Len(E) = 0 THEN branch
        ELSE IF Len(N) = 0 THEN "IndexError"
        ELSE IF ~Truthy(N[1]) THEN branch
        ELSE "pass"

CheckStream ==
    /\ pc = "check"
    /\ IF st.kind = "unbound"
       THEN ret' = Raised("UnboundLocalError") /\ pc' = "raised"
       ELSE IF st.kind = "None"
       THEN ret' = ErrorResult /\ pc' = "returned"
       ELSE IF CheckComponents(st) = "IndexError"
       THEN ret' = Raised("IndexError") /\ pc' = "raised"
       ELSE IF CheckComponents(st) = "error"
       THEN ret' = ErrorResult /\ pc' = "returned"
       ELSE ret' = ret /\ pc' = "lengths"
    /\ UNCHANGED <<disk, fn, inp, st, erd, li, queries, applied>>

\* "Check trace lengths": ll0, ll1, ll2 and the comparison.
\* (LengthsAgreeAlways: the comparison left out.)
LengthsAgreeAlways(s) == TRUE
LengthsAgree(s) ==
    LET ll0 == select(s, "Z")[1].npts
        ll1 == select(s, "E")[1].npts
        ll2 == select(s, "Z")[1].npts
    IN  ll0 = ll1 /\ ll0 = ll2

CheckLengths ==
    /\ pc = "lengths"
    /\ IF ~LengthsAgree(st)
       THEN ret' = ErrorResult /\ pc' = "returned"
       ELSE ret' = ret /\ pc' = "process"
    /\ UNCHANGED <<disk, fn, inp, st, erd, li, queries, applied>>

\* "Detrend data" and "Filter Traces", one statement at a time.
Process ==
    /\ pc = "process"
    /\ Len(applied) < Len(ProcSteps)
    /\ applied' = Append(applied, ProcSteps[Len(applied) + 1])
    /\ UNCHANGED <<disk, pc, fn, inp, ret, st, erd, li, queries>>

\* "Extract traces" and "Return Flag and Data".
Return ==
    /\ pc = "process"
    /\ Len(applied) = Len(ProcSteps)
    /\ ret' = [kind |-> "return", erd |-> FALSE,
               tr |-> <<select(st, "N")[1], select(st, "E")[1], select(st, "Z")[1]>>]
    /\ pc' = "returned"
    /\ UNCHANGED <<disk, fn, inp, st, erd, li, queries, applied>>

Next ==
    \/ FindFile
    \/ Call_get_options
    \/ Call_get_options_prep_offline
    \/ Call_get_options_OL_proc
    \/ Call_parse_localdata_for_comp
    \/ Call_get_data_NEZ
    \/ LoopQuery
    \/ LoopExit
    \/ CheckStream
    \/ CheckLengths
    \/ Process
    \/ Return

Spec == Init /\ [][Next]_vars

(***************************************************************************)
(* Properties.                                                             *)
(***************************************************************************)
Range(q) == {q[i] : i \in 1..Len(q)}

\* get_data_NEZ has passed the component check / the length check / has ended.
PastComponentCheck ==
    fn = "get_data_NEZ" /\ pc \in {"lengths", "process", "returned", "raised"}
PastLengthCheck == fn = "get_data_NEZ" /\ pc \in {"process", "returned", "raised"}
PastLoop ==
    fn = "get_data_NEZ" /\ pc \in {"check", "lengths", "process", "returned", "raised"}

HasComp(s, c) == \E i \in 1..Len(s.traces) : s.traces[i].comp = c
FirstOf(s, c) ==
    s.traces[CHOOSE i \in 1..Len(s.traces) :
                 s.traces[i].comp = c /\ \A j \in 1..(i - 1) : s.traces[j].comp # c]
HasZEN(s) == s.kind = "Stream" /\ \A c \in Comps : HasComp(s, c)

\* C1: whenever the Z, E and N traces of the obtained stream do not all have
\* the same number of samples (also when only N differs), get_data_NEZ returns
\* the error result and applies no processing step.
C1_UnequalLengthsRejected ==
    ( /\ PastLengthCheck
      /\ HasZEN(st)
      /\ ~( /\ FirstOf(st, "Z").npts = FirstOf(st, "E").npts
            /\ FirstOf(st, "Z").npts = FirstOf(st, "N").npts) )
    => (ret = ErrorResult /\ applied = <<>>)

\* C2: whenever the obtained stream is not None but lacks a trace of Z, E or
\* N, get_data_NEZ ends by returning the error result: it neither raises nor
\* returns traces.
C2_MissingComponentReturnsError ==
    ( /\ PastComponentCheck
      /\ st.kind = "Stream"
      /\ \E c \in Comps : ~HasComp(st, c) )
    => ret = ErrorResult

\* The files of stdata named for the day (yr, jd), the station and the
\* component of the call: under the station's network, under an alternate
\* network code.
NamedFor(f, yr, jd) ==
    f.yr = yr /\ f.jd = jd /\ f.sta = inp.sta.station /\ f.comp = inp.comp
UnderNetwork(yr, jd) ==
    {f \in Range(inp.stdata) : NamedFor(f, yr, jd) /\ f.net = inp.sta.network}
UnderAltnet(yr, jd) ==
    {f \in Range(inp.stdata) : NamedFor(f, yr, jd) /\ f.net \in Range(inp.sta.altnet)}

\* What C3 asks of the candidate list of one day: with no file under
\* sta.network, every alternate-network file in format 1 is a candidate, and
\* when there is none of those every alternate-network file (format 2) is.
AltnetTried(cands, yr, jd) ==
    UnderNetwork(yr, jd) = {} =>
        /\ {f \in UnderAltnet(yr, jd) : f.chan = inp.sta.channel} \subseteq Range(cands)
        /\ {f \in UnderAltnet(yr, jd) : f.chan = inp.sta.channel} = {}
               => UnderAltnet(yr, jd) \subseteq Range(cands)

LocalDone == fn = "parse_localdata_for_comp" /\ pc = "done"

\* C3: in the single-day case and for each day of the two-day case, and for
\* both filename formats, when no file matches under sta.network every file
\* named for that day, station and component under a code of sta.altnet is
\* selected as a candidate.
C3_AltnetCandidates ==
    LocalDone =>
        IF ret.proc = "single"
        THEN AltnetTried(ret.lclfiles, strftimeY(inp.start), strftimej(inp.start))
        ELSE /\ AltnetTried(ret.lclfiles1, strftimeY(inp.start), strftimej(inp.start))
             /\ AltnetTried(ret.lclfiles2, strftimeY(inp.end), strftimej(inp.end))

\* The three local lookups of the call all succeeded.
LocalComplete ==
    /\ Len(inp.stdata) > 0
    /\ \A c \in Comps : ~Local(inp, c).erd

\* C4: when stdata is non-empty and the local lookup succeeds for Z, N and E,
\* client.get_waveforms is never called and the traces returned are those of
\* the local streams.
C4_LocalPreferred ==
    (fn = "get_data_NEZ" /\ LocalComplete) =>
        /\ queries = <<>>
        /\ st.kind = "Stream"
        /\ \A i \in 1..Len(st.traces) : st.traces[i].origin = "disk"
        /\ ret.kind = "return" =>
              /\ ~ret.erd
              /\ ret.tr = <<Local(inp, "N").st[1], Local(inp, "E").st[1],
                            Local(inp, "Z").st[1]>>

C4_Witness ==
    /\ fn = "get_data_NEZ" /\ LocalComplete
    /\ pc = "returned" /\ ~ret.erd

\* The request get_data_NEZ is to make: all three channels over [start, end].
IsFullRequest(q) ==
    /\ q.channel = <<inp.sta.channel, "E", ",", inp.sta.channel, "N", ",",
                     inp.sta.channel, "Z">>
    /\ q.starttime = inp.start /\ q.endtime = inp.end
    /\ q.network = inp.sta.network /\ q.station = inp.sta.station

\* After the fallback: the client was asked, and nothing local is in use.
FellBack ==
    /\ Len(queries) >= 1
    /\ \A i \in 1..Len(queries) : IsFullRequest(queries[i])
    /\ \A i \in 1..Len(st.traces) : st.traces[i].origin = "client"
    /\ (ret.kind = "return" /\ ~ret.erd) =>
           \A i \in 1..Len(ret.tr) : ret.tr[i].origin = "client"

\* C5 as stated: when stdata is empty or the local lookup fails for a
\* component, the client is queried for E, N and Z over [start, end] and no
\* locally resolved component is used.
C5_FallbackAlways == (PastLoop /\ ~LocalComplete) => FellBack

\* C5, amended: the same, when sta.location names at least one location code.
C5_FallbackWithLocation ==
    (PastLoop /\ ~LocalComplete /\ Len(inp.sta.location) > 0) =>
        (FellBack /\ st.kind # "unbound")

C5_Witness ==
    /\ fn = "get_data_NEZ" /\ ~LocalComplete
    /\ Len(inp.stdata) > 0 /\ ~Local(inp, "Z").erd
    /\ Len(queries) = 2
    /\ pc = "returned" /\ ~ret.erd

\* start and end lie on different calendar days.
DifferentDays ==
    strftimeY(inp.start) # strftimeY(inp.end) \/ strftimej(inp.start) # strftimej(inp.end)

\* A day-1 file and a day-2 file of stdata as C6 describes them: named for
\* the station's network and channel, one trace each, day 1 reaching day 2 to
\* within one sample interval, one id and calibration, the two together
\* spanning the window without missing samples in it.
MergeablePair(f1, f2) ==
    /\ NamedFor(f1, strftimeY(inp.start), strftimej(inp.start))
    /\ NamedFor(f2, strftimeY(inp.end), strftimej(inp.end))
    /\ f1.net = inp.sta.network /\ f2.net = inp.sta.network
    /\ f1.chan = inp.sta.channel /\ f2.chan = inp.sta.channel
    /\ f1.ntr = 1 /\ f2.ntr = 1
    /\ f1.calib = f2.calib
    /\ f1.te >= f2.ts - 1
    /\ (IF f1.ts <= f2.ts THEN f1.ts ELSE f2.ts) <= inp.start
    /\ (IF f1.te >= f2.te THEN f1.te ELSE f2.te) >= inp.end
    /\ \A f \in {f1, f2} : \A t \in f.holes :
           (f.user9 \in {0, NoUser9}) \/ t < inp.start \/ t > inp.end

\* C6: when start and end fall on different days and stdata holds such a
\* pair, the call returns (False, stream), the stream being a merged trace
\* trimmed to [start, end].
C6_TwoDayMerge ==
    ( /\ LocalDone
      /\ DifferentDays
      /\ \E f1, f2 \in Range(inp.stdata) : MergeablePair(f1, f2) )
    => /\ ~ret.erd
       /\ Len(ret.st) = 1
       /\ ret.st[1].ts = inp.start /\ ret.st[1].te = inp.end
       /\ Len(ret.st[1].src) = 2

\* C6 for the windows the code treats as multi-day (holds: the merge itself
\* does what C6 says).
C6_TwoDayMergeWhenDetected ==
    (LocalDone /\ ret.proc = "multi") => C6_TwoDayMerge

\* C7: every stream returned with error flag False comes from a file, or a
\* merged pair of files, with starttime <= start and endtime >= end, and is
\* trimmed to [start, end].
C7_SuccessCoversWindow ==
    (LocalDone /\ ~ret.erd) =>
        /\ Len(ret.st) = 1
        /\ ret.st[1].ts = inp.start /\ ret.st[1].te = inp.end
        /\ ret.st[1].npts = inp.end - inp.start + 1
        /\ Len(ret.st[1].src) \in {1, 2}
        /\ Range(ret.st[1].src) \subseteq Range(inp.stdata)
        /\ \E f \in Range(ret.st[1].src) : f.ts <= inp.start
        /\ \E f \in Range(ret.st[1].src) : f.te >= inp.end

\* A merged pair is returned while a file that only partly overlaps the
\* window is on disk.
C7_Witness ==
    /\ LocalDone /\ ~ret.erd
    /\ Len(ret.st[1].src) = 2
    /\ \E f \in Range(inp.stdata) :
           f.ts <= inp.end /\ f.te >= inp.start /\ ~(f.ts <= inp.start /\ f.te >= inp.end)

\* C8: the two-day procedure runs exactly when start and end lie on different
\* calendar days, the single-file procedure exactly when they lie on the same
\* day; the same day of year in different years is a multi-day window.
C8_ProcedureByCalendarDay ==
    LocalDone => (ret.proc = "multi" <=> DifferentDays)

\* C9: in get_options, -O and -K together leave opts.skip and opts.ovr both
\* False; otherwise each keeps the value given; they are never both True.
C9_SkipOverwrite ==
    (fn = "get_options" /\ ret.kind = "return") =>
        /\ (inp.ovr /\ inp.skip) => (~ret.opts.skip /\ ~ret.opts.ovr)
        /\ ~(inp.ovr /\ inp.skip) =>
               (ret.opts.skip = inp.skip /\ ret.opts.ovr = inp.ovr)
        /\ ~(ret.opts.skip /\ ret.opts.ovr)

C9_Witness ==
    /\ fn = "get_options" /\ ret.kind = "return"
    /\ inp.ovr /\ inp.skip

OptionParsers == {"get_options", "get_options_prep_offline", "get_options_OL_proc"}

\* C10: each option parser returns (opts, path) only when exactly one
\* positional argument was given and that path exists; otherwise the call ends
\* in a parser error.
C10_OnePositionalArgument ==
    (fn \in OptionParsers /\ pc = "done") =>
        /\ ret.kind \in {"return", "parser.error"}
        /\ ret.kind = "return" =>
               (Len(inp.args) = 1 /\ inp.args[1] = "db" /\ ret.path = inp.args[1])
        /\ (Len(inp.args) # 1 \/ inp.args[1] # "db") => ret.kind = "parser.error"

C10_Witness ==
    /\ fn = "get_options_OL_proc" /\ pc = "done"
    /\ Len(inp.args) = 1 /\ inp.args[1] = "nofile"
    /\ ret.kind = "parser.error"

AuthParsers == {"get_options", "get_options_prep_offline"}
Colons(s) == {i \in 1..Len(s) : s[i] = ":"}

\* C11: in get_options and get_options_prep_offline a --User-Auth value with
\* exactly one colon is accepted and opts.UserAuth is the two-element list
\* [text before the colon, text after it]; an omitted or empty value gives the
\* empty list; a non-empty value with no colon or more than one colon ends in
\* a parser error; a returned opts.UserAuth has length 0 or 2.
C11_UserAuth ==
    (fn \in AuthParsers /\ pc = "done") =>
        LET s == inp.UserAuth
        IN  /\ ret.kind = "return" =>
                   /\ Len(ret.opts.UserAuth) \in {0, 2}
                   /\ Len(s) = 0 => ret.opts.UserAuth = <<>>
                   /\ Len(s) # 0 =>
                          \E k \in Colons(s) :
                              ret.opts.UserAuth =
                                  <<SubSeq(s, 1, k - 1), SubSeq(s, k + 1, Len(s))>>
            /\ (Len(s) # 0 /\ Cardinality(Colons(s)) # 1) =>
                   ret.kind = "parser.error"
            /\ (Cardinality(Colons(s)) = 1 /\ Len(inp.args) = 1 /\ exist(inp.args[1])
                  /\ inp.startT # "bad" /\ inp.endT # "bad") =>
                   ret.kind = "return"

\* A user name and a password are returned by one parser, and the other
\* rejects a value with two colons on an otherwise valid command line.
C11_Witness ==
    /\ fn = "get_options_prep_offline" /\ pc = "done"
    /\ ret.kind = "return"
    /\ Len(ret.opts.UserAuth) = 2
    /\ ret.opts.UserAuth[1] # <<>> /\ ret.opts.UserAuth[2] # <<>>

C11_WitnessError ==
    /\ fn = "get_options" /\ pc = "done"
    /\ Cardinality(Colons(inp.UserAuth)) = 2
    /\ Len(inp.args) = 1 /\ exist(inp.args[1])
    /\ inp.startT # "bad" /\ inp.endT # "bad"
    /\ ret = Error(AuthError)

\* C12: in get_options and get_options_prep_offline opts.ndval is 0.0 exactly
\* when --no-data-zero was given and NaN otherwise; no other value is returned.
C12_NoDataValue ==
    (fn \in AuthParsers /\ ret.kind = "return") =>
        /\ ret.opts.ndval \in {"0.0", "nan"}
        /\ ret.opts.ndval = "0.0" <=> inp.ndval
        /\ ret.opts.ndval = "nan" <=> ~inp.ndval

C12_Witness ==
    /\ fn \in AuthParsers /\ ret.kind = "return"
    /\ inp.ndval /\ ret.opts.ndval = "0.0"

\* C13: in each of the three option parsers, when --min-mag is not given
\* opts.minmag is 5.8 (58 tenths).
C13_MinMagDefault ==
    (fn \in OptionParsers /\ ret.kind = "return" /\ inp.minmag = <<>>) =>
        ret.opts.minmag = 58

\* The two offline parsers default to 5.8.
C13_MinMagDefaultOffline ==
    (fn \in (OptionParsers \ {"get_options"}) /\ ret.kind = "return"
       /\ inp.minmag = <<>>) =>
        ret.opts.minmag = 58

\* The four filename variants for the day (yr, jd), as the sets of files of
\* stdata they match: primary network in format 1 (the station's channel
\* prefix) and format 2 (any prefix), then the same under the alternate codes.
Variant(n, yr, jd) ==
    IF n = 1 THEN {f \in UnderNetwork(yr, jd) : f.chan = inp.sta.channel}
    ELSE IF n = 2 THEN UnderNetwork(yr, jd)
    ELSE IF n = 3 THEN {f \in UnderAltnet(yr, jd) : f.chan = inp.sta.channel}
    ELSE UnderAltnet(yr, jd)

\* The matches of the first variant, in that order, that matches any file.
FirstMatch(yr, jd) ==
    IF \A n \in 1..4 : Variant(n, yr, jd) = {} THEN {}
    ELSE Variant(CHOOSE n \in 1..4 :
                     /\ Variant(n, yr, jd) # {}
                     /\ \A m \in 1..(n - 1) : Variant(m, yr, jd) = {},
                 yr, jd)

\* A file, or a pair of day files, the call can use: one trace each, the
\* window covered, no sample of the window missing.
MissingIn(f) ==
    /\ inp.ndval = "nan"
    /\ f.user9 \notin {0, NoUser9}
    /\ \E t \in f.holes : inp.start <= t /\ t <= inp.end /\ f.ts <= t /\ t <= f.te
UsableFile(f) ==
    f.ntr = 1 /\ f.ts <= inp.start /\ f.te >= inp.end /\ ~MissingIn(f)
UsablePair(f1, f2) ==
    /\ f1.ntr = 1 /\ f2.ntr = 1
    /\ <<f1.net, f1.sta, f1.chan, f1.comp>> = <<f2.net, f2.sta, f2.chan, f2.comp>>
    /\ f1.calib = f2.calib
    /\ f1.te >= f2.ts - 1
    /\ (IF f1.ts <= f2.ts THEN f1.ts ELSE f2.ts) <= inp.start
    /\ (IF f1.te >= f2.te THEN f1.te ELSE f2.te) >= inp.end
    /\ ~MissingIn(f1) /\ ~MissingIn(f2)

\* What C14 asks of a single-day call and of a multi-day call.
FallbackOrderSingle ==
    LET first == FirstMatch(strftimeY(inp.start), strftimej(inp.start))
    IN  /\ Range(ret.lclfiles) = first
        /\ ~ret.erd => Range(ret.st[1].src) \subseteq first
        /\ (first # {} /\ \A f \in first : ~UsableFile(f)) =>
               (ret.erd /\ ret.st = <<>>)
FallbackOrderMulti ==
    LET first1 == FirstMatch(strftimeY(inp.start), strftimej(inp.start))
        first2 == FirstMatch(strftimeY(inp.end), strftimej(inp.end))
    IN  /\ Range(ret.lclfiles1) = first1
        /\ Range(ret.lclfiles2) = first2
        /\ ~ret.erd => (ret.st[1].src[1] \in first1 /\ ret.st[1].src[2] \in first2)
        /\ (first1 # {} /\ first2 # {}
              /\ \A f1 \in first1, f2 \in first2 : ~UsablePair(f1, f2)) =>
               (ret.erd /\ ret.st = <<>>)

\* C14: for a given day the candidates are the matches of the first of the
\* variants primary format 1, primary format 2, alternate format 1, alternate
\* format 2 that matches any file; when those candidates exist and none is
\* usable (wrong trace count, window not covered, missing data) no later
\* variant is tried and the result is (True, None).
C14_FallbackOrder ==
    LocalDone =>
        IF ret.proc = "single" THEN FallbackOrderSingle ELSE FallbackOrderMulti

\* Only alternate-network files in format 2 are named for the day of a call
\* that takes the single-day branch.
OnlyAltnetFormat2 ==
    /\ ret.proc = "single"
    /\ \A n \in 1..3 : Variant(n, strftimeY(inp.start), strftimej(inp.start)) = {}
    /\ Variant(4, strftimeY(inp.start), strftimej(inp.start)) # {}

\* C14 for every other call (holds: the order and the absence of a retry are
\* as stated wherever the fourth variant of the single-day case is not needed).
C14_FallbackOrderElsewhere ==
    (LocalDone /\ ~OnlyAltnetFormat2) => C14_FallbackOrder

\* Unusable primary-network candidates end the call although a usable
\* alternate-network file is on disk.
C14_NoRetryReached ==
    /\ LocalDone /\ ret.erd /\ ret.proc = "single"
    /\ Range(ret.lclfiles) # {}
    /\ \E f \in Range(inp.stdata) : f.net \in Range(inp.sta.altnet) /\ UsableFile(f)

\* The instants of the window a returned stream must hold as zeros: the
\* marked samples of its files, when the no-data value is 0.0.
ZeroedInWindow(src) ==
    IF inp.ndval = "0.0"
    THEN {t \in inp.start..inp.end :
             \E f \in Range(src) :
                 f.user9 \notin {0, NoUser9} /\ t \in f.holes /\ f.ts <= t /\ t <= f.te}
    ELSE {}

\* C15: no returned stream holds a NaN sample.  With ndval = NaN a candidate
\* (or pair) with a marked sample (user9 neither 0.0 nor -12345.0) inside
\* [start, end] is skipped and the next candidate is tried, so the first
\* candidate without one is returned; with ndval = 0.0 the same candidate is
\* accepted and its marked samples are zeros.
C15_NoNaNReturned ==
    LocalDone =>
        /\ ~ret.erd =>
               /\ ret.st[1].nan = {}
               /\ \A f \in Range(ret.st[1].src) : ~MissingIn(f)
               /\ ret.st[1].zero = ZeroedInWindow(ret.st[1].src)
        /\ ret.proc = "single" =>
               \A i \in 1..Len(ret.lclfiles) :
                   ( /\ UsableFile(ret.lclfiles[i])
                     /\ \A j \in 1..(i - 1) : ~UsableFile(ret.lclfiles[j]) )
                   => (~ret.erd /\ ret.st[1].src = <<ret.lclfiles[i]>>)
        /\ ret.proc = "multi" =>
               ( (\E f1 \in Range(ret.lclfiles1), f2 \in Range(ret.lclfiles2) :
                      UsablePair(f1, f2))
                 => ( /\ ~ret.erd
                      /\ UsablePair(ret.st[1].src[1], ret.st[1].src[2]) ) )

\* With ndval = NaN the first candidate has a marked sample in the window and
\* the second one is returned.
C15_Witness ==
    /\ LocalDone /\ inp.ndval = "nan"
    /\ Len(ret.lclfiles) = 2
    /\ MissingIn(ret.lclfiles[1])
    /\ ~ret.erd /\ ret.st[1].src = <<ret.lclfiles[2]>>

\* With ndval = 0.0 a candidate with a marked sample in the window is
\* returned, the sample set to zero; a merged pair with one is skipped with
\* ndval = NaN and returned with ndval = 0.0.
C15_ZeroReached ==
    /\ LocalDone /\ inp.ndval = "0.0"
    /\ ~ret.erd /\ ret.st[1].zero # {}
C15_PairSkipped ==
    /\ LocalDone /\ inp.ndval = "nan" /\ ret.proc = "multi"
    /\ Len(ret.lclfiles1) = 1 /\ Len(ret.lclfiles2) = 1
    /\ ret.lclfiles1[1].ntr = 1 /\ ret.lclfiles2[1].ntr = 1
    /\ ret.lclfiles1[1].te = ret.lclfiles2[1].ts - 1
    /\ ret.lclfiles1[1].ts <= inp.start /\ ret.lclfiles2[1].te >= inp.end
    /\ MissingIn(ret.lclfiles2[1])
    /\ ret.erd
C15_PairZeroed ==
    /\ LocalDone /\ inp.ndval = "0.0" /\ ret.proc = "multi"
    /\ ~ret.erd /\ ret.st[1].zero # {}

\* The call of get_data_NEZ has ended.
NEZEnded == fn = "get_data_NEZ" /\ pc \in {"returned", "raised"}

IsPrefix(a, b) == Len(a) <= Len(b) /\ a = SubSeq(b, 1, Len(a))

\* C16: the processing steps are applied in the order demean, linear detrend,
\* low-pass at 2.5 Hz, resampling to 5 Hz, band-pass 0.01-0.25 Hz, and only
\* to a stream that is not None, holds Z, E and N traces with samples and has
\* passed the length comparison the code makes (Z against E); a call that
\* returns the error result or raises has applied none of them, and a call
\* that returns traces has applied all five.
C16_ProcessingOrder ==
    /\ IsPrefix(applied, <<"detrend demean", "detrend linear", "lowpass 2.5",
                           "resample 5.0", "bandpass 0.01-0.25">>)
    /\ applied # <<>> =>
           /\ fn = "get_data_NEZ" /\ pc \in {"process", "returned"}
           /\ HasZEN(st)
           /\ FirstOf(st, "Z").npts > 0 /\ FirstOf(st, "N").npts > 0
           /\ FirstOf(st, "Z").npts = FirstOf(st, "E").npts
    /\ (NEZEnded /\ (ret.kind = "raise" \/ ret.erd)) => applied = <<>>
    /\ (NEZEnded /\ ret.kind = "return" /\ ~ret.erd) => Len(applied) = 5

\* Traces are returned after all five steps; and an error is returned by the
\* length check, after the other two checks passed, with nothing applied.
C16_Witness ==
    /\ NEZEnded /\ ret.kind = "return" /\ ~ret.erd
    /\ applied[1] = "detrend demean" /\ applied[5] = "bandpass 0.01-0.25"
C16_LengthErrorReached ==
    /\ NEZEnded /\ ret.kind = "return" /\ ret.erd
    /\ HasZEN(st) /\ FirstOf(st, "Z").npts > 0 /\ FirstOf(st, "N").npts > 0
    /\ FirstOf(st, "Z").npts # FirstOf(st, "E").npts
    /\ applied = <<>>

\* One of the two results get_data_NEZ is to return.
IsResult(r) ==
    /\ r.kind = "return"
    /\ IF r.erd THEN r.tr = <<>>
       ELSE /\ Len(r.tr) = 3
            /\ r.tr[1].comp = "N" /\ r.tr[2].comp = "E" /\ r.tr[3].comp = "Z"

\* C17: every call of get_data_NEZ ends by returning (True, None, None, None)
\* or (False, trN, trE, trZ); in particular, with no local stream and an empty
\* sta.location, it returns the error result.
C17_AlwaysReturns ==
    NEZEnded =>
        /\ IsResult(ret)
        /\ (~LocalComplete /\ Len(inp.sta.location) = 0) => (ret.kind = "return" /\ ret.erd)

\* The case C17 singles out, by itself.
C17_EmptyLocationReturnsError ==
    (NEZEnded /\ ~LocalComplete /\ Len(inp.sta.location) = 0) =>
        (ret.kind = "return" /\ ret.erd)

\* C17 for the calls that obtain a stream with all three components, or None
\* from the client (holds).
C17_ReturnsWithStream ==
    (NEZEnded /\ (st.kind = "None" \/ HasZEN(st))) => IsResult(ret)

====
